---- MODULE Spec2Model ----
(***************************************************************************)
(* The nutrition calculator of src/app.py as a state machine.              *)
(*                                                                         *)
(* One interaction (one run of main()) is one step.  The state is the CSV  *)
(* file behind DATA_PATH, the st.cache_data store of load_dishes, the      *)
(* widget values read by the run, the values the run computed and the UI   *)
(* elements it emitted.                                                    *)
(*                                                                         *)
(* A string is a sequence of one-character strings.  A nutrient amount is  *)
(* a natural number standing for the float of the same value: the only     *)
(* arithmetic of the program is value * serving_count with serving_count   *)
(* in 1..5.                                                                *)
(***************************************************************************)
EXTENDS Naturals, Sequences, FiniteSets

VARIABLES csv, cache, dishes_df, serving_count, dish_list, selected_dish,
          text_input_dish, result_df, display_df, row, per_serving_values,
          total_values, summary, plot_df, rendered, outcome

vars == <<csv, cache, dishes_df, serving_count, dish_list, selected_dish,
          text_input_dish, result_df, display_df, row, per_serving_values,
          total_values, summary, plot_df, rendered, outcome>>

(* ------------------------------ bounds -------------------------------- *)

\* Most rows in the CSV file.
MaxRows == 2

\* Longest text typed into the search box.
MaxTextLen == 2

(* ------------------------------ inputs -------------------------------- *)

\* Dish names of the files explored: two that differ only in letter case,
\* and names that share substrings.
DishNames == { <<"A", "b">>, <<"a", "b">>, <<"B", "a">>, <<"b">> }

\* Characters typed into the search box: an uppercase letter, the
\* regular-expression metacharacter "." and a blank.
TextChars == { "A", ".", " " }

Texts == UNION { [1..n -> TextChars] : n \in 0..MaxTextLen }

\* <<Calories, Protein_g, Carbs_g, Fat_g>> of the i-th row of the files
\* explored: the four amounts differ from each other and from row to row.
Nutrients(i) == <<100 * i + 50, 10 * i + 2, 20 * i + 10, 5 * i + 3>>

CsvRow(name, i) ==
    [Dish |-> name, Calories |-> Nutrients(i)[1], Protein_g |-> Nutrients(i)[2],
     Carbs_g |-> Nutrients(i)[3], Fat_g |-> Nutrients(i)[4]]

\* The file behind DATA_PATH: missing, or a header and up to MaxRows rows.
CsvFiles ==
    { [exists |-> FALSE, rows |-> <<>>] } \cup
    { [exists |-> TRUE, rows |-> [i \in 1..Len(names) |-> CsvRow(names[i], i)]] :
        names \in UNION { [1..n -> DishNames] : n \in 0..MaxRows } }

\* The slider: min_value=1, max_value=5, step=1.
SliderMin == 1
SliderMax == 5
Servings == SliderMin..SliderMax

(* ------------------------------ strings ------------------------------- *)

\* Python's None (the value of a selectbox without options, and the name of
\* a row that was never bound); no string of characters equals it.
None == <<"None">>

\* str.lower() on one character.
LowerChar(c) ==
    CASE c = "A" -> "a"
      [] c = "B" -> "b"
      [] OTHER -> c

\* str.lower()
lower(s) == [i \in 1..Len(s) |-> LowerChar(s[i])]

\* str.isspace() on one character.
IsSpace(c) == c = " "

RECURSIVE lstrip(_)
lstrip(s) ==
    IF s = <<>> THEN s
    ELSE IF IsSpace(Head(s)) THEN lstrip(Tail(s)) ELSE s

RECURSIVE rstrip(_)
rstrip(s) ==
    IF s = <<>> THEN s
    ELSE IF IsSpace(s[Len(s)]) THEN rstrip(SubSeq(s, 1, Len(s) - 1)) ELSE s

\* str.strip()
strip(s) == rstrip(lstrip(s))

\* ord() of the characters in use.
Ord(c) ==
    CASE c = " " -> 32
      [] c = "." -> 46
      [] c = "A" -> 65
      [] c = "B" -> 66
      [] c = "a" -> 97
      [] c = "b" -> 98

\* s < t on Python strings: lexicographic by code point.
RECURSIVE str_lt(_, _)
str_lt(s, t) ==
    IF t = <<>> THEN FALSE
    ELSE IF s = <<>> THEN TRUE
    ELSE IF Head(s) = Head(t) THEN str_lt(Tail(s), Tail(t))
    ELSE Ord(Head(s)) < Ord(Head(t))

\* Where a stable sort puts x in the sorted list s when x came before all
\* of s: before the first element that is not smaller than x.
RECURSIVE insort(_, _)
insort(x, s) ==
    IF s = <<>> THEN <<x>>
    ELSE IF str_lt(Head(s), x) THEN <<Head(s)>> \o insort(x, Tail(s))
    ELSE <<x>> \o s

\* sorted(list) of strings: a new list, every element kept.
RECURSIVE sorted(_)
sorted(l) == IF l = <<>> THEN <<>> ELSE insort(Head(l), sorted(Tail(l)))

\* One pattern character of a regular expression against one character of
\* the subject: "." matches any character but a newline, a letter or a
\* blank matches itself.
RegexCharMatches(p, c) == p = "." \/ p = c

\* Series.str.contains(pat) for one element: regex=True is the default, so
\* it is re.search(pat, name).  The patterns in use are concatenations of
\* letters, blanks and ".".
contains(name, pat) ==
    \E k \in 0..(Len(name) - Len(pat)) :
        \A i \in 1..Len(pat) : RegexCharMatches(pat[i], name[k + i])

(* --------------------------- load_dishes ------------------------------ *)

\* pd.read_csv(DATA_PATH): the rows of the file, in file order.
read_csv(file) == file.rows

\* load_dishes without .str.lower(): dish_lower is a copy of Dish.
load_dishes_no_lower(file) ==
    LET df == read_csv(file)
    IN  [i \in 1..Len(df) |->
            [Dish |-> df[i].Dish, Calories |-> df[i].Calories,
             Protein_g |-> df[i].Protein_g, Carbs_g |-> df[i].Carbs_g,
             Fat_g |-> df[i].Fat_g, dish_lower |-> df[i].Dish]]

\* The body of load_dishes: every row, in order, with the derived column
\* dish_lower = Dish.str.lower().
load_dishes(file) ==
    LET df == read_csv(file)
    IN  [i \in 1..Len(df) |->
            [Dish |-> df[i].Dish, Calories |-> df[i].Calories,
             Protein_g |-> df[i].Protein_g, Carbs_g |-> df[i].Carbs_g,
             Fat_g |-> df[i].Fat_g, dish_lower |-> lower(df[i].Dish)]]

\* A call of the @st.cache_data function: a stored value is returned as a
\* copy without reading the file; otherwise the body runs, and its value
\* is stored unless it raised FileNotFoundError (nothing is stored then).
cached_load_dishes(file, store) ==
    IF store # <<>> THEN [ok |-> TRUE, df |-> store[1], cache |-> store]
    ELSE IF file.exists
         THEN [ok |-> TRUE, df |-> load_dishes(file),
               cache |-> <<load_dishes(file)>>]
         ELSE [ok |-> FALSE, df |-> <<>>, cache |-> store]

(* ------------------------------ main ---------------------------------- *)

\* dish_list = sorted(dishes_df["Dish"].tolist())
options(df) == sorted([i \in 1..Len(df) |-> df[i].Dish])

\* st.selectbox(label, dish_list): the option the user picked, None when
\* there is no option.
selectbox(opts, pick) == IF opts = <<>> THEN None ELSE opts[pick]

\* Lines 128-133 with `if text_input_dish:` (no strip in the test).
matched_rows_no_strip(df, selected, text) ==
    IF text # <<>>
    THEN LET query == lower(strip(text))
         IN  SelectSeq(df, LAMBDA r : contains(r.dish_lower, query))
    ELSE LET query == lower(selected)
         IN  SelectSeq(df, LAMBDA r : r.dish_lower = query)

\* Lines 128-133 with `query = selected_dish` (no lower on the selection).
matched_rows_query_not_lowered(df, selected, text) ==
    IF strip(text) # <<>>
    THEN LET query == lower(strip(text))
         IN  SelectSeq(df, LAMBDA r : contains(r.dish_lower, query))
    ELSE LET query == selected
         IN  SelectSeq(df, LAMBDA r : r.dish_lower = query)

\* Lines 128-133 with dishes_df["Dish"] == query in the else branch.
matched_rows_dish_column(df, selected, text) ==
    IF strip(text) # <<>>
    THEN LET query == lower(strip(text))
         IN  SelectSeq(df, LAMBDA r : contains(r.dish_lower, query))
    ELSE LET query == lower(selected)
         IN  SelectSeq(df, LAMBDA r : r.Dish = query)

\* Lines 128-133: the rows kept by the boolean mask, in the order of df.
matched_rows(df, selected, text) ==
    IF strip(text) # <<>>
    THEN LET query == lower(strip(text))
         IN  SelectSeq(df, LAMBDA r : contains(r.dish_lower, query))
    ELSE LET query == lower(selected)
         IN  SelectSeq(df, LAMBDA r : r.dish_lower = query)

\* result_df.empty
empty(df) == Len(df) = 0

\* result_df.drop(columns=["dish_lower"])
drop_dish_lower(df) ==
    [i \in 1..Len(df) |->
        [Dish |-> df[i].Dish, Calories |-> df[i].Calories,
         Protein_g |-> df[i].Protein_g, Carbs_g |-> df[i].Carbs_g,
         Fat_g |-> df[i].Fat_g]]

\* result_df.iloc[-1]
iloc_last(df) == df[Len(df)]

\* result_df.iloc[0]
iloc0(df) == df[1]

nutrient_labels == <<"Calories", "Protein_g", "Carbs_g", "Fat_g">>

\* Lines 154-159.
per_serving(r) == <<r.Calories, r.Protein_g, r.Carbs_g, r.Fat_g>>

\* Line 161 with value + serving_count.
scale_add(values, s) == [i \in 1..Len(values) |-> values[i] + s]

\* Line 161: [value * serving_count for value in per_serving_values]
scale(values, s) == [i \in 1..Len(values) |-> values[i] * s]

\* Lines 190-195: pd.DataFrame({"Nutrient": labels, "Amount": amounts})
plot_frame(labels, amounts) ==
    [i \in 1..Len(labels) |-> [Nutrient |-> labels[i], Amount |-> amounts[i]]]

\* A row that was never bound (main returned before line 150).
NoRow ==
    [Dish |-> None, Calories |-> 0, Protein_g |-> 0, Carbs_g |-> 0,
     Fat_g |-> 0, dish_lower |-> None]

\* serving_count when the slider was never created.
NoServing == 0

\* What every run emits before it calls load_dishes (lines 83-91).
Header == { "title", "intro" }

\* What a run emits between the load and the lookup (lines 103-125).
Controls ==
    { "sidebar_header", "slider", "sidebar_tip", "subheader_choose",
      "selectbox", "text_input" }

\* What a run emits after a non-empty lookup (lines 142-229).
Report ==
    { "subheader_table", "dataframe", "subheader_summary", "metrics",
      "subheader_chart", "plotly_chart", "pyplot", "explanation" }

\* Lines 95-100 without the return: the run goes on to the controls and
\* ends at line 121 on the unbound dishes_df.
run_not_found_no_return(store) ==
    [cache |-> store, dishes_df |-> <<>>, serving_count |-> SliderMin,
     dish_list |-> <<>>, selected_dish |-> None, text_input_dish |-> <<>>,
     result_df |-> <<>>, display_df |-> <<>>, row |-> NoRow,
     per_serving_values |-> <<>>, total_values |-> <<>>,
     summary |-> <<>>, plot_df |-> <<>>,
     rendered |-> Header \cup { "error", "sidebar_header", "slider",
                                "sidebar_tip", "subheader_choose" },
     outcome |-> "UnboundLocalError"]

\* Lines 95-100: FileNotFoundError is caught, st.error, return.
run_not_found(store) ==
    [cache |-> store, dishes_df |-> <<>>, serving_count |-> NoServing,
     dish_list |-> <<>>, selected_dish |-> None, text_input_dish |-> <<>>,
     result_df |-> <<>>, display_df |-> <<>>, row |-> NoRow,
     per_serving_values |-> <<>>, total_values |-> <<>>,
     summary |-> <<>>, plot_df |-> <<>>,
     rendered |-> Header \cup { "error" }, outcome |-> "DatasetNotFound"]

\* Line 132 with selected_dish = None: None.lower() raises AttributeError,
\* which nothing catches; the run ends there.
run_attribute_error(store, df, s, opts, selected, text) ==
    [cache |-> store, dishes_df |-> df, serving_count |-> s,
     dish_list |-> opts, selected_dish |-> selected, text_input_dish |-> text,
     result_df |-> <<>>, display_df |-> <<>>, row |-> NoRow,
     per_serving_values |-> <<>>, total_values |-> <<>>,
     summary |-> <<>>, plot_df |-> <<>>,
     rendered |-> Header \cup Controls, outcome |-> "AttributeError"]

\* Lines 135-137 without the return: the empty table is shown and the run
\* ends at line 150 on iloc[0] of an empty frame.
run_no_match_no_return(store, df, s, opts, selected, text, result) ==
    [cache |-> store, dishes_df |-> df, serving_count |-> s,
     dish_list |-> opts, selected_dish |-> selected, text_input_dish |-> text,
     result_df |-> result, display_df |-> drop_dish_lower(result),
     row |-> NoRow,
     per_serving_values |-> <<>>, total_values |-> <<>>,
     summary |-> <<>>, plot_df |-> <<>>,
     rendered |-> Header \cup Controls \cup
                  { "warning", "subheader_table", "dataframe" },
     outcome |-> "IndexError"]

\* Lines 135-137: st.warning, return.
run_no_match(store, df, s, opts, selected, text, result) ==
    [cache |-> store, dishes_df |-> df, serving_count |-> s,
     dish_list |-> opts, selected_dish |-> selected, text_input_dish |-> text,
     result_df |-> result, display_df |-> <<>>, row |-> NoRow,
     per_serving_values |-> <<>>, total_values |-> <<>>,
     summary |-> <<>>, plot_df |-> <<>>,
     rendered |-> Header \cup Controls \cup { "warning" },
     outcome |-> "NoMatch"]

\* Lines 140-229: table, active row, scaling, summary and charts.
run_report(store, df, s, opts, selected, text, result) ==
    LET r == iloc0(result)
        per == per_serving(r)
        total == scale(per, s)
    IN  [cache |-> store, dishes_df |-> df, serving_count |-> s,
         dish_list |-> opts, selected_dish |-> selected,
         text_input_dish |-> text,
         result_df |-> result, display_df |-> drop_dish_lower(result),
         row |-> r, per_serving_values |-> per, total_values |-> total,
         summary |-> <<[servings |-> s, dish |-> r.Dish]>>,
         plot_df |-> plot_frame(nutrient_labels, total),
         rendered |-> Header \cup Controls \cup Report,
         outcome |-> "Report"]

\* Lines 128-137 and what follows them.
run_lookup(store, df, s, opts, selected, text) ==
    IF strip(text) = <<>> /\ selected = None
    THEN run_attribute_error(store, df, s, opts, selected, text)
    ELSE LET result == matched_rows(df, selected, text)
         IN  IF empty(result)
             THEN run_no_match(store, df, s, opts, selected, text, result)
             ELSE run_report(store, df, s, opts, selected, text, result)

\* One run of main() on the widget values s (slider), pick (position of the
\* chosen option in the selectbox) and text (search box).
run_main(file, store, s, pick, text) ==
    LET loaded == cached_load_dishes(file, store)
    IN  IF ~loaded.ok
        THEN run_not_found(loaded.cache)
        ELSE LET opts == options(loaded.df)
             IN  run_lookup(loaded.cache, loaded.df, s, opts,
                            selectbox(opts, pick), text)

(* --------------------------- state machine ---------------------------- *)

\* The process has started and main() has not run yet: the file is what it
\* is, nothing is cached, nothing is bound or emitted.
Init ==
    /\ csv \in CsvFiles
    /\ cache = <<>>
    /\ dishes_df = <<>>
    /\ serving_count = NoServing
    /\ dish_list = <<>>
    /\ selected_dish = None
    /\ text_input_dish = <<>>
    /\ result_df = <<>>
    /\ display_df = <<>>
    /\ row = NoRow
    /\ per_serving_values = <<>>
    /\ total_values = <<>>
    /\ summary = <<>>
    /\ plot_df = <<>>
    /\ rendered = {}
    /\ outcome = "start"

\* One run of main() from the top on the widget values s, pick and text.
\* The file is only read.
main(s, pick, text) ==
    \E out \in { run_main(csv, cache, s, pick, text) } :
        /\ cache' = out.cache
        /\ dishes_df' = out.dishes_df
        /\ serving_count' = out.serving_count
        /\ dish_list' = out.dish_list
        /\ selected_dish' = out.selected_dish
        /\ text_input_dish' = out.text_input_dish
        /\ result_df' = out.result_df
        /\ display_df' = out.display_df
        /\ row' = out.row
        /\ per_serving_values' = out.per_serving_values
        /\ total_values' = out.total_values
        /\ summary' = out.summary
        /\ plot_df' = out.plot_df
        /\ rendered' = out.rendered
        /\ outcome' = out.outcome
        /\ UNCHANGED csv

\* The position the selectbox holds for the value it showed in the last run
\* (list.index: the first position of the value).
index_of(opts, selected) ==
    IF opts = <<>> THEN 1
    ELSE CHOOSE k \in 1..Len(opts) :
            /\ opts[k] = selected
            /\ \A j \in 1..(k - 1) : opts[j] # selected

\* The page is opened: the first run, on the widgets' initial values
\* (value=1, the first option, an empty text).
open_page ==
    /\ outcome = "start"
    /\ main(SliderMin, 1, <<>>)

\* Streamlit runs main() again with the widget values unchanged (a page
\* reload, or a rerun after a run that created no widget).
rerun ==
    /\ outcome # "start"
    /\ IF "slider" \in rendered
       THEN main(serving_count, index_of(dish_list, selected_dish),
                 text_input_dish)
       ELSE main(SliderMin, 1, <<>>)

\* The user moves the slider to s.
move_slider(s) ==
    /\ "slider" \in rendered
    /\ s # serving_count
    /\ main(s, index_of(dish_list, selected_dish), text_input_dish)

\* The user picks the option at position pick.
select_dish(pick) ==
    /\ "selectbox" \in rendered
    /\ pick \in 1..Len(dish_list)
    /\ main(serving_count, pick, text_input_dish)

\* The user submits text in the search box.
type_text(text) ==
    /\ "text_input" \in rendered
    /\ text # text_input_dish
    /\ main(serving_count, index_of(dish_list, selected_dish), text)

Next ==
    \/ open_page
    \/ rerun
    \/ \E s \in Servings : move_slider(s)
    \/ \E pick \in 1..MaxRows : select_dish(pick)
    \/ \E text \in Texts : type_text(text)

Spec == Init /\ [][Next]_vars

(* ------------------------------ claims -------------------------------- *)

\* The last run reached the lookup of lines 128-135 and bound result_df.
LookedUp == outcome \in { "NoMatch", "Report" }

\* The last run got a dataset from load_dishes.
Loaded == outcome \notin { "start", "DatasetNotFound" }

\* The free text of the last run is non-empty after trimming.
FreeTextActive == strip(text_input_dish) # <<>>

\* pat occurs in name, every character taken literally.
IsLiteralSubstring(pat, name) ==
    \E k \in 0..(Len(name) - Len(pat)) :
        \A i \in 1..Len(pat) : pat[i] = name[k + i]

\* The strings that differ from name at most in letter case.
CaseVariants(name) ==
    { m \in [1..Len(name) -> { "A", "a", "B", "b" }] : lower(m) = lower(name) }

\* C1: with free text that is non-empty after trimming, the matched rows are
\* exactly the records whose name contains the trimmed text as a
\* case-insensitive literal substring, in dataset order.
C1_FreeTextIsLiteralSubstring ==
    (LookedUp /\ FreeTextActive) =>
        result_df =
            SelectSeq(dishes_df,
                      LAMBDA r : IsLiteralSubstring(lower(strip(text_input_dish)),
                                                    lower(r.Dish)))

\* C2: with free text that is non-empty after trimming, the matched rows are
\* the same for every selected name; with empty or whitespace-only free
\* text they are the same for every such text (they depend on the selected
\* name only).
C2_QueryPrecedence ==
    LookedUp =>
        IF FreeTextActive
        THEN \A n \in DishNames \cup { None } :
                matched_rows(dishes_df, n, text_input_dish) = result_df
        ELSE \A t \in Texts :
                strip(t) = <<>> =>
                    matched_rows(dishes_df, selected_dish, t) = result_df

C2_Witness ==
    /\ outcome = "Report"
    /\ ~FreeTextActive
    /\ text_input_dish # <<>>
    /\ Len(dishes_df) = 2
    /\ Len(result_df) = 1

\* C3: with empty free text, the matched rows are every record whose name
\* equals the selected name ignoring case, in dataset order, and a selected
\* name that differs only in letter case yields the same rows.
C3_ExactNameIgnoresCase ==
    (LookedUp /\ ~FreeTextActive) =>
        /\ result_df =
               SelectSeq(dishes_df,
                         LAMBDA r : lower(r.Dish) = lower(selected_dish))
        /\ \A n \in CaseVariants(selected_dish) :
               matched_rows(dishes_df, n, text_input_dish) = result_df

C3_Witness ==
    /\ outcome = "Report"
    /\ ~FreeTextActive
    /\ Len(result_df) = 2
    /\ result_df[1].Dish # result_df[2].Dish
    /\ selected_dish = result_df[2].Dish

\* The least position of the dataset whose record is among the matched rows.
FirstMatchIndex ==
    CHOOSE k \in 1..Len(dishes_df) :
        /\ \E i \in 1..Len(result_df) : result_df[i] = dishes_df[k]
        /\ \A j \in 1..(k - 1) :
               \A i \in 1..Len(result_df) : result_df[i] # dishes_df[j]

\* C4: when there is a match, the record behind the summary and the charts
\* is the first matching record in dataset order, and the table shows every
\* matched record.
C4_FirstMatchIsActive ==
    outcome = "Report" =>
        /\ row = dishes_df[FirstMatchIndex]
        /\ summary = <<[servings |-> serving_count, dish |-> row.Dish]>>
        /\ per_serving_values =
               <<row.Calories, row.Protein_g, row.Carbs_g, row.Fat_g>>
        /\ \A i \in 1..4 :
               plot_df[i].Amount = per_serving_values[i] * serving_count
        /\ Len(display_df) = Len(result_df)
        /\ \A i \in 1..Len(result_df) :
               /\ display_df[i].Dish = result_df[i].Dish
               /\ display_df[i].Calories = result_df[i].Calories
               /\ display_df[i].Protein_g = result_df[i].Protein_g
               /\ display_df[i].Carbs_g = result_df[i].Carbs_g
               /\ display_df[i].Fat_g = result_df[i].Fat_g

C4_Witness ==
    /\ outcome = "Report"
    /\ FreeTextActive
    /\ Len(result_df) = 2
    /\ result_df[1].Dish # result_df[2].Dish
    /\ row.Dish = result_df[1].Dish

\* C5: when the lookup finds no row, the run ends with the NoMatch warning
\* and nothing after it: no table, no active row, no scaling, no summary,
\* no chart; the controls of the next interaction are on the page.
C5_NoMatchStops ==
    (Loaded /\ outcome # "AttributeError" /\ result_df = <<>>) =>
        /\ outcome = "NoMatch"
        /\ "warning" \in rendered
        /\ rendered \cap Report = {}
        /\ Controls \subseteq rendered
        /\ display_df = <<>>
        /\ row = NoRow
        /\ per_serving_values = <<>>
        /\ total_values = <<>>
        /\ summary = <<>>
        /\ plot_df = <<>>

C5_Witness ==
    /\ outcome = "NoMatch"
    /\ Len(dishes_df) = 2
    /\ result_df = <<>>

\* C6: when the file is missing, the run ends with the DatasetNotFound
\* message, no dataset is built or cached, and nothing else is produced: no
\* control, no lookup, no table, no scaling, no chart.
C6_MissingSourceAborts ==
    (~csv.exists /\ outcome # "start") =>
        /\ outcome = "DatasetNotFound"
        /\ "error" \in rendered
        /\ rendered \cap (Controls \cup Report \cup { "warning" }) = {}
        /\ cache = <<>>
        /\ dishes_df = <<>>
        /\ dish_list = <<>>
        /\ result_df = <<>>
        /\ display_df = <<>>
        /\ row = NoRow
        /\ per_serving_values = <<>>
        /\ total_values = <<>>
        /\ summary = <<>>
        /\ plot_df = <<>>

C6_Witness ==
    /\ ~csv.exists
    /\ outcome = "DatasetNotFound"
    /\ "error" \in rendered

\* C7: the per-serving values are the active row's Calories, Protein_g,
\* Carbs_g and Fat_g in that order, each total is the per-serving value
\* times the serving count (so the total at s servings is s times the total
\* at one serving, and the total at one serving is the per-serving value),
\* and the interactive chart shows these totals under the nutrient labels.
C7_ScalingIsLinear ==
    outcome = "Report" =>
        /\ serving_count \in SliderMin..SliderMax
        /\ per_serving_values =
               <<row.Calories, row.Protein_g, row.Carbs_g, row.Fat_g>>
        /\ Len(total_values) = 4
        /\ scale(per_serving_values, 1) = per_serving_values
        /\ \A i \in 1..4 :
               /\ total_values[i] = per_serving_values[i] * serving_count
               /\ total_values[i] =
                      scale(per_serving_values, 1)[i] * serving_count
               /\ plot_df[i] =
                      [Nutrient |-> nutrient_labels[i],
                       Amount |-> total_values[i]]

C7_Witness ==
    /\ outcome = "Report"
    /\ serving_count = 3
    /\ total_values[1] = 3 * row.Calories
    /\ total_values[1] > per_serving_values[1]

\* C8: the options of the selectbox are in ascending order, contain every
\* dish name of the dataset, and contain no name twice.
C8_OptionsSortedDistinct ==
    "selectbox" \in rendered =>
        /\ \A i \in 1..Len(dish_list) : \A j \in (i + 1)..Len(dish_list) :
               ~str_lt(dish_list[j], dish_list[i])
        /\ \A k \in 1..Len(dishes_df) :
               \E i \in 1..Len(dish_list) : dish_list[i] = dishes_df[k].Dish
        /\ \A i \in 1..Len(dish_list) : \A j \in (i + 1)..Len(dish_list) :
               dish_list[i] # dish_list[j]

\* The dataset d is the file's rows, in file order with unchanged fields,
\* each with the lowercase of its name as dish_lower.
IsDatasetOfFile(d) ==
    /\ Len(d) = Len(csv.rows)
    /\ \A i \in 1..Len(d) :
           /\ d[i].Dish = csv.rows[i].Dish
           /\ d[i].Calories = csv.rows[i].Calories
           /\ d[i].Protein_g = csv.rows[i].Protein_g
           /\ d[i].Carbs_g = csv.rows[i].Carbs_g
           /\ d[i].Fat_g = csv.rows[i].Fat_g
           /\ d[i].dish_lower = lower(d[i].Dish)

\* C9: every run that loads gets the dataset of the first load: once a
\* dataset is cached, no run changes it and every later run works on that
\* same dataset, which is the file's rows in order with a lowercase-name
\* index of the same length.
C9_DatasetReadOnly ==
    [][ /\ cache # <<>> => (cache' = cache /\ dishes_df' = cache[1])
        /\ Loaded' => (cache' # <<>> /\ dishes_df' = cache'[1]
                       /\ IsDatasetOfFile(dishes_df')) ]_vars

C9_Witness ==
    /\ outcome = "Report"
    /\ FreeTextActive
    /\ serving_count = 2
    /\ Len(dishes_df) = 2
    /\ selected_dish # dish_list[1]
    /\ cache = <<dishes_df>>

\* C10: with a non-empty dataset and empty or whitespace-only free text,
\* the selected name is one of the dataset's names and the matched rows
\* contain a record carrying it; NoMatch happens only with free text that
\* is non-empty after trimming.
C10_SelectedNameAlwaysMatches ==
    /\ (Loaded /\ Len(dishes_df) > 0 /\ ~FreeTextActive) =>
           /\ outcome = "Report"
           /\ \E k \in 1..Len(dishes_df) : dishes_df[k].Dish = selected_dish
           /\ \E i \in 1..Len(result_df) : result_df[i].Dish = selected_dish
    /\ outcome = "NoMatch" => FreeTextActive

C10_Witness ==
    /\ outcome = "Report"
    /\ ~FreeTextActive
    /\ Len(dishes_df) = 2
    /\ dishes_df[1].Dish # dishes_df[2].Dish
    /\ lower(dishes_df[1].Dish) = lower(dishes_df[2].Dish)
    /\ Len(result_df) = 2

====
